---------------------------- MODULE Spec2Model ----------------------------
(***************************************************************************)
(* actionSHARK: a fetcher that pages through the GitHub Actions REST API   *)
(* and a Mongo store that converts and persists what the fetcher forwards. *)
(*                                                                         *)
(* The repository holds two variants of the fetcher:                       *)
(*   variant 1 = src/actionSHARK/github.py  (definitions ending in 1)      *)
(*   variant 2 = src/actionshark/github.py  (definitions ending in 2)      *)
(* and one store, src/actionshark/mongo.py.                                *)
(*                                                                         *)
(* The fetcher is a sequential program.  A state of the model is a point   *)
(* where the program is blocked on the outside world: a GET request in     *)
(* flight (pc = "auth", "wait"), a sleep in progress (pc = "sleep"), or    *)
(* the end of run (pc = "done", "exit", "raised").  An action is one       *)
(* answer of the outside world together with all the code that runs until  *)
(* the program blocks again.                                               *)
(***************************************************************************)
EXTENDS Integers, Sequences, FiniteSets, TLC

(***************************************************************************)
(* Bounds of the model.                                                    *)
(***************************************************************************)
\* per_page passed to the constructor (the code's default is 100)
PerPage == 2
\* GET requests one run may issue before the model stops following it
MaxRequests == 5
\* Run records the run-id source may hold
MaxRuns == 2
\* items in one batch handed to save_documents
MaxBatch == 3
\* calls of save_documents in a sequence of calls
MaxCalls == 4
\* executions of the program against the same database
MaxExecutions == 2
\* fetchers constructed in one process
MaxInstances == 2
\* requests of those fetchers the model follows
MaxSent == 2
\* 403 responses the platform gives one execution
MaxLimits == 2

(***************************************************************************)
(* Inputs.                                                                 *)
(***************************************************************************)
Owner == "octo"
Repo == "demo"
\* token argument of the constructor: "" stands for None (both are falsy)
Tokens == {"", "t1"}
\* statuses the server answers a page request with, besides 200 and 403
OtherStatus == {404}
\* statuses the server answers the precheck with
AuthStatus == {200, 401, 403}
\* X-RateLimit-Reset values, and readings of the clock / the Date header
Times == {100, 130, 86600}
\* numeric run ids of the platform
RunIdValues == {7, 8}
\* the internal id (ObjectId) of the i-th record of a collection
Oid(i) == <<"oid", i>>
\* the contents of the run-id source: Run records, each with its internal
\* id and its numeric run id
RunRecords ==
    UNION { [1..n -> RunIdValues] : n \in 0..MaxRuns }
RunsObjects ==
    {[passed |-> FALSE, objects |-> <<>>]} \cup
    {[passed |-> TRUE,
      objects |-> [i \in 1..Len(ids) |-> [id |-> Oid(i), run_id |-> ids[i]]]]
        : ids \in RunRecords}

VARIABLES
    variant,                \* 1 or 2: which github.py is running (0: none)
    token,                  \* self.__token ("" for None)
    runs_object,            \* the argument of run
    pc,                     \* where the program is blocked
    stage,                  \* which fetch of run is in progress
    idx,                    \* position of the per-run loop in run_ids
    current_action,         \* self.current_action
    page,                   \* self.page
    github_url,             \* the local github_url of paginating
    request,                \* the GET request in flight (or the last one issued)
    total_requests,         \* self.total_requests
    limit_handler_counter,  \* self.limit_handler_counter
    sleep_time,             \* the argument of the sleep in progress
    sink,                   \* the calls of save_mongo made so far
    gets,                   \* history: GET requests issued by paginating
    fetches,                \* history: calls of paginating begun
    prechecks,              \* history: GET requests issued by authenticate_user
    last_status,            \* history: status of the last response received
    auth_status,            \* history: status of the answer to the precheck, 0 if none
    last_count              \* history: item count of the last 200 response

fvars == <<variant, token, runs_object, pc, stage, idx, current_action,
           page, github_url, request, total_requests, limit_handler_counter,
           sleep_time, sink, gets, fetches, prechecks, last_status,
           auth_status, last_count>>

VARIABLES
    workflows,              \* the Workflow collection, in insertion order
    runs,                   \* the Run collection
    jobs,                   \* the Job collection
    artifacts,              \* the Artifact collection
    vcs_systems,            \* number of VCSSystem records with url = repo_url
    call,                   \* history: the last call of save_documents
    ncalls,                 \* history: calls of save_documents made
    server,                 \* the Actions data of the repository on the platform
    executions              \* history: executions of the program that have ended

mvars == <<workflows, runs, jobs, artifacts, vcs_systems, call, ncalls,
           server, executions>>

VARIABLES
    headers,                \* GitHub.__headers, the dict of the class
    instances,              \* the fetchers constructed in the process: their tokens
    sent                    \* history: the requests issued, with the headers sent

hvars == <<headers, instances, sent>>

vars == <<fvars, mvars, hvars>>

(***************************************************************************)
(* Strings.  A URL is a sequence of pieces; a number is formatted into its *)
(* decimal digits, as an f-string does.                                    *)
(***************************************************************************)
Digits == <<"0", "1", "2", "3", "4", "5", "6", "7", "8", "9">>

RECURSIVE Str(_)
Str(n) ==
    IF n < 10 THEN <<Digits[n + 1]>>
    ELSE Str(n \div 10) \o <<Digits[(n % 10) + 1]>>

\* f"&page={self.page}"
PageParam(p) == <<"&page=">> \o Str(p)

\* github_url[: -len(f"&page={self.page}")]
StripPage(url, p) == SubSeq(url, 1, Len(url) - Len(PageParam(p)))

api_url == <<"https://api.github.com/">>

\* f"{run_id}" of a number (variant 1 hands run.run_id to get_jobs)
FormatInt(n) == Str(n)
\* f"{run_id}" of an ObjectId (variant 2 hands run.id to get_jobs): its hex text
FormatOid(o) == <<"oid:">> \o Str(o[2])


\* save_documents has not been called
NoCall == [action |-> "", documents |-> <<>>, raised |-> FALSE, results |-> <<>>]

\* no data of the platform is looked at
NoServer == [workflows |-> <<>>, artifacts |-> <<>>, runs |-> <<>>, jobs |-> <<>>]

\* __headers as the class body leaves it; "Authorization" is <<>> while the
\* dict has no such key
ClassHeaders ==
    [Accept |-> "application/vnd.github.v3+json", Authorization |-> <<>>]

\* the headers while one fetcher, or none, is looked at
HeadersIdle == headers = ClassHeaders /\ instances = <<>> /\ sent = <<>>

\* the store while only the fetcher is looked at
StoreIdle ==
    /\ workflows = <<>> /\ runs = <<>> /\ jobs = <<>> /\ artifacts = <<>>
    /\ vcs_systems = 1 /\ call = NoCall /\ ncalls = 0
    /\ server = NoServer /\ executions = 0
    /\ HeadersIdle

(***************************************************************************)
(* The fetcher's mutable state as one record, so that the code between two *)
(* blocking points composes as functions from state to state.              *)
(***************************************************************************)
Cur ==
    [pc |-> pc, stage |-> stage, idx |-> idx, current_action |-> current_action,
     page |-> page, github_url |-> github_url, request |-> request,
     total_requests |-> total_requests,
     limit_handler_counter |-> limit_handler_counter,
     sleep_time |-> sleep_time, sink |-> sink, gets |-> gets,
     fetches |-> fetches, prechecks |-> prechecks,
     last_status |-> last_status, auth_status |-> auth_status,
     last_count |-> last_count]

Set(s) ==
    /\ pc' = s.pc /\ stage' = s.stage /\ idx' = s.idx
    /\ current_action' = s.current_action /\ page' = s.page
    /\ github_url' = s.github_url /\ request' = s.request
    /\ total_requests' = s.total_requests
    /\ limit_handler_counter' = s.limit_handler_counter
    /\ sleep_time' = s.sleep_time /\ sink' = s.sink /\ gets' = s.gets
    /\ fetches' = s.fetches /\ prechecks' = s.prechecks
    /\ last_status' = s.last_status /\ auth_status' = s.auth_status
    /\ last_count' = s.last_count
    /\ UNCHANGED <<variant, token, runs_object>>
    /\ UNCHANGED mvars
    /\ UNCHANGED hvars

\* the model follows a run for MaxRequests page requests
Within(s) == s.gets <= MaxRequests

\* a step of the program into state s
Step(s) == Within(s) /\ Set(s)

\* timedelta(...).seconds of the difference a - b of two instants: the
\* seconds field of the normalised timedelta, always in 0..86399
SecondsPerDay == 86400
\* a faulty difference: the signed number of seconds
TimedeltaSeconds_signed(a, b) == a - b
TimedeltaSeconds(a, b) == (a - b) % SecondsPerDay

(***************************************************************************)
(* Variant 1: src/actionSHARK/github.py                                    *)
(***************************************************************************)
\* actions_url[key].format(owner, repo, run_id, per_page)
actions_url1(key, run_id) ==
    CASE key = "workflow" ->
           <<"repos/", Owner, "/", Repo, "/actions/workflows", "?per_page=">>
             \o Str(PerPage)
      [] key = "run" ->
           <<"repos/", Owner, "/", Repo, "/actions/runs", "?per_page=">>
             \o Str(PerPage)
      [] key = "job" ->
           <<"repos/", Owner, "/", Repo, "/actions/runs/">> \o run_id
             \o <<"/jobs", "?per_page=">> \o Str(PerPage)
      [] key = "artifact" ->
           <<"repos/", Owner, "/", Repo, "/actions/artifacts", "?per_page=">>
             \o Str(PerPage)

\* the top of the while loop: append the page number, issue the GET and
\* block on the response
LoopTop1(s) ==
    LET url == s.github_url \o PageParam(s.page)
    IN  [s EXCEPT !.github_url = url, !.request = url, !.gets = @ + 1,
                  !.pc = "wait"]

\* a call of paginating(github_url, checker), up to its first request
paginating1(s, url) ==
    LoopTop1([s EXCEPT !.github_url = url, !.fetches = @ + 1])

get_workflows1(s) ==
    paginating1([s EXCEPT !.stage = "workflows", !.current_action = "workflow",
                          !.page = 1],
                api_url \o actions_url1("workflow", <<>>))

\* a faulty get_runs: the page counter is left where it was
get_runs1_keeps_page(s) ==
    paginating1([s EXCEPT !.stage = "runs", !.current_action = "run"],
                api_url \o actions_url1("run", <<>>))

get_runs1(s) ==
    paginating1([s EXCEPT !.stage = "runs", !.current_action = "run",
                          !.page = 1],
                api_url \o actions_url1("run", <<>>))

get_jobs1(s, run_id) ==
    IF run_id = 0
    THEN [s EXCEPT !.pc = "exit"]
    ELSE paginating1([s EXCEPT !.stage = "jobs", !.current_action = "job",
                               !.page = 1],
                     api_url \o actions_url1("job", FormatInt(run_id)))

get_artifacts1(s) ==
    paginating1([s EXCEPT !.stage = "artifacts", !.current_action = "artifact",
                          !.page = 1],
                api_url \o actions_url1("artifact", <<>>))

\* a faulty collection of the run ids: in the reverse order
run_ids1_reversed ==
    [i \in 1..Len(runs_object.objects) |->
        runs_object.objects[Len(runs_object.objects) + 1 - i].run_id]

\* run_ids = [run.run_id for run in runs_object.objects()]
run_ids1 == [i \in 1..Len(runs_object.objects) |-> runs_object.objects[i].run_id]

\* for run in run_ids: self.get_jobs(run), from the i-th element on
run1_jobs(s, i) ==
    IF i > Len(run_ids1)
    THEN [s EXCEPT !.pc = "done"]
    ELSE get_jobs1([s EXCEPT !.idx = i], run_ids1[i])

\* a faulty run: runs_object is not looked at before the job loop
run1_resume_nocheck(s) ==
    CASE s.stage = "workflows" -> get_artifacts1(s)
      [] s.stage = "artifacts" -> get_runs1(s)
      [] s.stage = "runs" -> run1_jobs(s, 1)
      [] s.stage = "jobs" -> run1_jobs(s, s.idx + 1)

\* run, resumed where the paginating call of s.stage returns
run1_resume(s) ==
    CASE s.stage = "workflows" -> get_artifacts1(s)
      [] s.stage = "artifacts" -> get_runs1(s)
      [] s.stage = "runs" ->
           IF ~runs_object.passed
           THEN [s EXCEPT !.pc = "exit"]
           ELSE run1_jobs(s, 1)
      [] s.stage = "jobs" -> run1_jobs(s, s.idx + 1)

\* run, from its call to the first request
run1(s) ==
    IF token # ""
    THEN [s EXCEPT !.request = api_url \o <<"user">>, !.prechecks = @ + 1,
                   !.pc = "auth"]
    ELSE get_workflows1(s)

\* a faulty authenticate_user: the 401 is not looked at
authenticate_user1_ignores401(s, status) ==
    get_workflows1([s EXCEPT !.total_requests = @ + 1, !.last_status = status,
                             !.auth_status = status])

\* authenticate_user from the answer to its request on, and run after it
authenticate_user1(s, status) ==
    LET s1 == [s EXCEPT !.total_requests = @ + 1, !.last_status = status,
                        !.auth_status = status]
    IN  IF status = 401
        THEN [s1 EXCEPT !.pc = "exit"]
        ELSE get_workflows1(s1)

\* a faulty paginating: an unknown status is retried like a 403
paginating1_other_retries(s, status) ==
    LoopTop1([s EXCEPT !.total_requests = @ + 1, !.last_status = status])

\* paginating on a response that is neither 200 nor 403
paginating1_other(s, status) ==
    [s EXCEPT !.total_requests = @ + 1, !.last_status = status, !.pc = "exit"]

\* a faulty paginating: the 403 branch advances the page
paginating1_403_advances(s, reset_time, current_time) ==
    [s EXCEPT !.total_requests = @ + 1, !.last_status = 403,
              !.sleep_time = TimedeltaSeconds(reset_time, current_time),
              !.limit_handler_counter = @ + 1,
              !.page = @ + 1,
              !.pc = "sleep"]

\* paginating on a 403, up to the sleep.  The response carries the
\* X-RateLimit-Reset header, as the platform sends it; current_time is the
\* reading of the local clock.
paginating1_403(s, reset_time, current_time) ==
    [s EXCEPT !.total_requests = @ + 1, !.last_status = 403,
              !.sleep_time = TimedeltaSeconds(reset_time, current_time),
              !.limit_handler_counter = @ + 1,
              !.pc = "sleep"]

\* a faulty paginating: after the sleep the fetch begins again at page 1
paginating1_wake_restarts(s) ==
    LoopTop1([s EXCEPT !.sleep_time = 0, !.page = 1])

\* paginating when the sleep returns: continue, into the next iteration
\* (github_url still ends with the page parameter of the request that got
\* the 403; sleep_time is dead from here on)
paginating1_wake(s) ==
    LoopTop1([s EXCEPT !.sleep_time = 0])

\* a faulty paginating: the break on a short page is missing
paginating1_200_nobreak(s, n) ==
    LET s1 == [s EXCEPT !.total_requests = @ + 1, !.last_status = 200,
                        !.last_count = n]
        s2 == [s1 EXCEPT !.sink = Append(@, [documents |-> n,
                                             action |-> s.current_action,
                                             page |-> s.page]),
                         !.github_url = StripPage(@, s.page),
                         !.page = @ + 1,
                         !.total_requests = @ + 1]
    IN  IF n = 0 THEN run1_resume(s1) ELSE LoopTop1(s2)

\* a faulty paginating: an empty item list is forwarded like any other
paginating1_200_end_forwards(s, n) ==
    LET s1 == [s EXCEPT !.total_requests = @ + 1, !.last_status = 200,
                        !.last_count = n]
    IN  [s1 EXCEPT !.sink = Append(@, [documents |-> n,
                                       action |-> s.current_action,
                                       page |-> s.page]),
                   !.github_url = StripPage(@, s.page),
                   !.page = @ + 1,
                   !.total_requests = @ + 1]

\* the body of the loop of paginating on a 200 whose item list has n items,
\* up to the point where the loop is left (break) or begun again
paginating1_200_end(s, n) ==
    LET s1 == [s EXCEPT !.total_requests = @ + 1, !.last_status = 200,
                        !.last_count = n]
        s2 == [s1 EXCEPT !.sink = Append(@, [documents |-> n,
                                             action |-> s.current_action,
                                             page |-> s.page]),
                         !.github_url = StripPage(@, s.page),
                         !.page = @ + 1,
                         !.total_requests = @ + 1]
    IN  IF n = 0 THEN s1 ELSE s2

\* paginating on a 200 whose item list has n items: the body, and then
\* either the return into run or the next iteration
paginating1_200(s, n) ==
    IF n = 0 THEN run1_resume(paginating1_200_end(s, n))
    ELSE IF n < PerPage THEN run1_resume(paginating1_200_end(s, n))
    ELSE LoopTop1(paginating1_200_end(s, n))

Run1 ==
    /\ variant = 1 /\ pc = "init"
    /\ Step(run1(Cur))

AuthResponse1 ==
    /\ variant = 1 /\ pc = "auth"
    /\ \E status \in AuthStatus :
          Step(authenticate_user1(Cur, status))

Response200_1 ==
    /\ variant = 1 /\ pc = "wait"
    /\ \E n \in 0..PerPage :
          Step(paginating1_200(Cur, n))

Response403_1 ==
    /\ variant = 1 /\ pc = "wait"
    /\ \E reset_time \in Times, current_time \in Times :
          Step(paginating1_403(Cur, reset_time, current_time))

ResponseOther1 ==
    /\ variant = 1 /\ pc = "wait"
    /\ \E status \in OtherStatus : Step(paginating1_other(Cur, status))

Wake1 ==
    /\ variant = 1 /\ pc = "sleep"
    /\ Step(paginating1_wake(Cur))

Next1 ==
    \/ Run1 \/ AuthResponse1 \/ Response200_1 \/ Response403_1
    \/ ResponseOther1 \/ Wake1

Init1 ==
    /\ variant = 1
    /\ token \in Tokens
    /\ runs_object \in RunsObjects
    /\ pc = "init" /\ stage = "none" /\ idx = 0
    /\ current_action = "None" /\ page = 0
    /\ github_url = <<>> /\ request = <<>>
    /\ total_requests = 0 /\ limit_handler_counter = 0 /\ sleep_time = 0
    /\ sink = <<>> /\ gets = 0 /\ fetches = 0 /\ prechecks = 0
    /\ last_status = 0 /\ auth_status = 0 /\ last_count = 0
    /\ StoreIdle

Spec1 == Init1 /\ [][Next1]_vars

(***************************************************************************)
(* Variant 2: src/actionshark/github.py                                    *)
(***************************************************************************)
actions_url2(key, run_id) ==
    CASE key = "workflows" ->
           <<"repos/", Owner, "/", Repo, "/actions/workflows", "?per_page=">>
             \o Str(PerPage)
      [] key = "runs" ->
           <<"repos/", Owner, "/", Repo, "/actions/runs", "?per_page=">>
             \o Str(PerPage)
      [] key = "jobs" ->
           <<"repos/", Owner, "/", Repo, "/actions/runs/">> \o run_id
             \o <<"/jobs", "?per_page=">> \o Str(PerPage)
      [] key = "artifacts" ->
           <<"repos/", Owner, "/", Repo, "/actions/runs/">> \o run_id
             \o <<"/artifacts", "?per_page=">> \o Str(PerPage)

LoopTop2(s) ==
    LET url == s.github_url \o PageParam(s.page)
    IN  [s EXCEPT !.github_url = url, !.request = url, !.gets = @ + 1,
                  !.pc = "wait"]

paginating2(s, url) ==
    LoopTop2([s EXCEPT !.github_url = url, !.fetches = @ + 1])

get_workflows2(s) ==
    paginating2([s EXCEPT !.stage = "workflows", !.current_action = "workflows",
                          !.page = 1],
                api_url \o actions_url2("workflows", <<>>))

get_runs2(s) ==
    paginating2([s EXCEPT !.stage = "runs", !.current_action = "runs",
                          !.page = 1],
                api_url \o actions_url2("runs", <<>>)
                        \o <<"&exclude_pull_requests=False">>)

\* run_id is an ObjectId here (run.id), which is never falsy
get_jobs2(s, run_id) ==
    paginating2([s EXCEPT !.stage = "jobs", !.current_action = "jobs",
                          !.page = 1],
                api_url \o actions_url2("jobs", FormatOid(run_id)))

get_artifacts2(s, run_id) ==
    paginating2([s EXCEPT !.stage = "artifacts", !.current_action = "artifacts",
                          !.page = 1],
                api_url \o actions_url2("artifacts", FormatOid(run_id)))

\* run_ids = [run.id for run in runs_object.objects()]
run_ids2 == [i \in 1..Len(runs_object.objects) |-> runs_object.objects[i].id]

\* the second loop over run_ids: self.get_artifacts(run)
run2_artifacts(s, i) ==
    IF i > Len(run_ids2)
    THEN [s EXCEPT !.pc = "done"]
    ELSE get_artifacts2([s EXCEPT !.idx = i], run_ids2[i])

\* the first loop over run_ids: self.get_jobs(run)
run2_jobs(s, i) ==
    IF i > Len(run_ids2)
    THEN run2_artifacts(s, 1)
    ELSE get_jobs2([s EXCEPT !.idx = i], run_ids2[i])

\* run, resumed where the paginating call of s.stage returns
run2_resume(s) ==
    CASE s.stage = "workflows" -> get_runs2(s)
      [] s.stage = "runs" ->
           IF runs_object.passed
           THEN run2_jobs(s, 1)
           ELSE [s EXCEPT !.pc = "done"]
      [] s.stage = "jobs" -> run2_jobs(s, s.idx + 1)
      [] s.stage = "artifacts" -> run2_artifacts(s, s.idx + 1)

\* run, from its call on.  With a token it calls
\* self.authenticate_user(verbose=True); authenticate_user takes no such
\* parameter, so the call raises TypeError before any request is made.
run2(s) ==
    IF token # ""
    THEN [s EXCEPT !.pc = "raised"]
    ELSE get_workflows2(s)

paginating2_other(s, status) ==
    [s EXCEPT !.total_requests = @ + 1, !.last_status = status, !.pc = "exit"]

\* paginating on a 403, up to the sleep; current_time is the Date header
paginating2_403(s, reset_time, current_time) ==
    [s EXCEPT !.total_requests = @ + 1, !.last_status = 403,
              !.sleep_time = TimedeltaSeconds(current_time, reset_time),
              !.limit_handler_counter = @ + 1,
              !.pc = "sleep"]

\* paginating when the sleep returns: self.get_limit() is called, and the
\* class has no get_limit, so AttributeError is raised
paginating2_wake(s) ==
    [s EXCEPT !.sleep_time = 0, !.pc = "raised"]

paginating2_200(s, n) ==
    LET s1 == [s EXCEPT !.total_requests = @ + 1, !.last_status = 200,
                        !.last_count = n]
        s2 == [s1 EXCEPT !.sink = Append(@, [documents |-> n,
                                             action |-> s.current_action,
                                             page |-> s.page])]
        s3 == [s2 EXCEPT !.github_url = StripPage(@, s.page),
                         !.page = @ + 1,
                         !.total_requests = @ + 1]
    IN  IF n = 0 THEN run2_resume(s1)
        ELSE IF n < PerPage THEN run2_resume(s2)
        ELSE LoopTop2(s3)

Run2 ==
    /\ variant = 2 /\ pc = "init"
    /\ Step(run2(Cur))

Response200_2 ==
    /\ variant = 2 /\ pc = "wait"
    /\ \E n \in 0..PerPage :
          Step(paginating2_200(Cur, n))

Response403_2 ==
    /\ variant = 2 /\ pc = "wait"
    /\ \E reset_time \in Times, current_time \in Times :
          Step(paginating2_403(Cur, reset_time, current_time))

ResponseOther2 ==
    /\ variant = 2 /\ pc = "wait"
    /\ \E status \in OtherStatus : Step(paginating2_other(Cur, status))

Wake2 ==
    /\ variant = 2 /\ pc = "sleep"
    /\ Step(paginating2_wake(Cur))

Next2 ==
    \/ Run2 \/ Response200_2 \/ Response403_2 \/ ResponseOther2 \/ Wake2

Init2 ==
    /\ variant = 2
    /\ token \in Tokens
    /\ runs_object \in RunsObjects
    /\ pc = "init" /\ stage = "none" /\ idx = 0
    /\ current_action = "None" /\ page = 1
    /\ github_url = <<>> /\ request = <<>>
    /\ total_requests = 0 /\ limit_handler_counter = 0 /\ sleep_time = 0
    /\ sink = <<>> /\ gets = 0 /\ fetches = 0 /\ prechecks = 0
    /\ last_status = 0 /\ auth_status = 0 /\ last_count = 0
    /\ StoreIdle

Spec2 == Init2 /\ [][Next2]_vars

(***************************************************************************)
(* Either variant of the fetcher.                                          *)
(***************************************************************************)
Init == Init1 \/ Init2

Next ==
    \/ Run1 \/ AuthResponse1 \/ Response200_1 \/ Response403_1
    \/ ResponseOther1 \/ Wake1
    \/ Run2 \/ Response200_2 \/ Response403_2 \/ ResponseOther2 \/ Wake2

Spec == Init /\ [][Next]_vars

(***************************************************************************)
(* Properties of the fetcher.                                              *)
(***************************************************************************)
\* the step is the handling of a 200 response with n items
Got200(n) == pc = "wait" /\ last_status' = 200 /\ last_count' = n

\* the number of page parameters a URL carries
PageParamCount(url) == Cardinality({i \in DOMAIN url : url[i] = "&page="})

\* C1: in both variants, a 200 response whose item list is non-empty and
\* shorter than per_page is forwarded to the sink exactly once, and paginating
\* returns: no further request is issued by the same call of paginating.
C1_ShortPageEndsFetch ==
    [][\A n \in 1..(PerPage - 1) :
         Got200(n) =>
           /\ sink' = Append(sink, [documents |-> n, action |-> current_action,
                                    page |-> page])
           /\ ~(gets' > gets /\ fetches' = fetches)
           /\ pc' \in {"wait", "done", "exit"}
           /\ (pc' = "wait" => fetches' = fetches + 1 /\ page' = 1)]_vars

C1_Witness ==
    /\ last_status = 200 /\ last_count \in 1..(PerPage - 1)
    /\ Len(sink) = 1 /\ fetches = 2 /\ pc = "wait"

\* C2: in variant 1, after a 200 response with exactly per_page items for
\* page p the next request is for page p + 1, and its URL is the URL of the
\* request for page p with the value of its single page parameter changed.
C2_NextPageUrl ==
    [][(variant = 1 /\ Got200(PerPage)) =>
         /\ pc' = "wait"
         /\ page' = page + 1
         /\ request' = StripPage(request, page) \o PageParam(page + 1)
         /\ PageParamCount(request') = 1]_vars

\* C3: in variant 1, handling a 403 changes neither the page counter nor the
\* calls of the sink, from the receipt of the 403 to the next request.
C3_403KeepsPageAndSink ==
    [][(variant = 1 /\ (pc = "sleep" \/ (pc = "wait" /\ last_status' = 403))) =>
         /\ page' = page
         /\ sink' = sink
         /\ pc' = IF pc = "wait" THEN "sleep" ELSE "wait"]_vars

C3_Witness ==
    /\ variant = 1 /\ pc = "wait" /\ last_status = 403
    /\ page = 2 /\ Len(sink) = 1 /\ limit_handler_counter = 2

\* C4: in variant 1, the request issued after the sleep that follows a 403
\* is the request that received the 403: the same URL.
C4_RetryIsIdentical ==
    [][(variant = 1 /\ pc = "sleep") => (pc' = "wait" /\ request' = request)]_vars

\* C5: in variant 2, every 403 is recovered: after the sleep the loop issues
\* a request for the same page and nothing is raised.
C5_403Recovered ==
    [][(variant = 2 /\ pc = "sleep") =>
         (pc' = "wait" /\ page' = page /\ gets' = gets + 1)]_vars

\* C6: in variant 1 with a token, a 401 answer to the precheck aborts the
\* program before any fetch: no page request is ever issued and the sink
\* is never called.
C6_401AbortsBeforeFetch ==
    (variant = 1 /\ auth_status = 401) =>
        /\ pc = "exit"
        /\ gets = 0 /\ fetches = 0 /\ sink = <<>>
        /\ prechecks = 1

C6_Witness == variant = 1 /\ token # "" /\ auth_status = 401 /\ pc = "exit"

\* C7: in both variants, with a token configured run issues exactly one
\* precheck request, and when its answer is not 401 run goes on to the
\* workflow fetch; no page request is issued before that answer.
C7_PrecheckThenFetch ==
    (token # "" /\ pc # "init") =>
        /\ prechecks = 1
        /\ (pc = "auth" => gets = 0)
        /\ (pc # "auth" /\ auth_status # 401 => fetches >= 1)

\* C8: in variant 1, a response that is neither 200 nor 403 ends the
\* program at once: nothing is forwarded, no request follows, and the calls
\* of the sink made before stay as they were.
C8_OtherStatusAborts ==
    [][/\ (variant = 1 /\ pc = "wait" /\ last_status' \notin {200, 403}) =>
            (pc' = "exit" /\ sink' = sink /\ gets' = gets /\ fetches' = fetches)
       /\ (variant = 1 /\ pc = "exit") => FALSE]_vars

C8_Witness ==
    /\ variant = 1 /\ pc = "exit" /\ last_status \in OtherStatus
    /\ Len(sink) = 2 /\ gets = 3

\* the place of a fetch in the order the specification gives run: the
\* workflow fetch, the artifact fetch of the repository, the run fetch, and
\* the fetches per run id (jobs, and artifacts of the run)
Rank(st, i) ==
    CASE st = "none" -> 0
      [] st = "workflows" -> 1
      [] st = "artifacts" /\ i = 0 -> 2
      [] st = "runs" -> 3
      [] st = "jobs" -> 4
      [] st = "artifacts" /\ i > 0 -> 4

\* C14: in both variants run performs, in order, the workflow fetch, the
\* artifact fetch, the run fetch and then, for every run id of the Store,
\* a job fetch and an artifact-per-run fetch: each fetch begins in the
\* stage after the stage of the fetch before it, and run ends only after
\* the artifact-per-run fetch of the last run id.
C14_RunOrder ==
    [][/\ fetches' = fetches + 1 =>
            Rank(stage', idx') = IF Rank(stage, idx) = 4 THEN 4
                                 ELSE Rank(stage, idx) + 1
       /\ (pc' = "done" /\ pc # "done" /\ runs_object.objects # <<>>) =>
            (stage' = "artifacts" /\ idx' = Len(runs_object.objects))]_vars

\* C15: in variant 1, when run is given no run-id source, the program
\* aborts (it never ends normally) and no job fetch is ever begun; the
\* abort that follows a 200 response comes only at the end of the run
\* fetch, the third fetch, after the workflow and the artifact fetch.
C15_NoRunsObjectAborts ==
    (variant = 1 /\ ~runs_object.passed) =>
        /\ pc # "done"
        /\ stage # "jobs"
        /\ \A i \in DOMAIN sink : sink[i].action # "job"
        /\ (pc = "exit" /\ last_status = 200) =>
              (stage = "runs" /\ fetches = 3 /\ gets >= 3)

C15_Witness ==
    /\ variant = 1 /\ ~runs_object.passed /\ pc = "exit"
    /\ last_status = 200 /\ stage = "runs" /\ Len(sink) = 3

(***************************************************************************)
(* The store: src/actionshark/mongo.py                                     *)
(*                                                                         *)
(* A raw item is a JSON object: a record of values, where Absent marks a   *)
(* key the object does not have.  Fields every converter copies unchanged  *)
(* and without a way to fail (status, conclusion, runner_name, ...) are    *)
(* left out of the items.                                                  *)
(***************************************************************************)
Absent == [t |-> "absent", v |-> 0]
None == [t |-> "None", v |-> 0]
I(n) == [t |-> "int", v |-> n]
S(k) == [t |-> "str", v |-> k]
\* a timestamp text of instant k, with ("ms") or without ("sec") fraction
Ts(fmt, k) == [t |-> fmt, v |-> k]
\* a parsed datetime
Dt(k) == [t |-> "datetime", v |-> k]

\* obj.get(key)
Get(v) == IF v = Absent THEN None ELSE v
\* obj[key] raises KeyError
HasKey(v) == v # Absent
\* int(x) raises TypeError on None and ValueError on text that is no number
IntOk(v) == v.t = "int"
\* truth value of x
Truthy(v) == ~(v.t \in {"absent", "None"}) /\ ~(v.t = "int" /\ v.v = 0)

\* the outcome of a conversion: a document, or an exception
Raise == [ok |-> FALSE, doc |-> None]
Return(d) == [ok |-> TRUE, doc |-> d]

\* __parse_date(value, is_millisecond)
parse_date_ok(v, is_millisecond) ==
    \/ ~Truthy(v)
    \/ v.t = (IF is_millisecond THEN "ms" ELSE "sec")
parse_date(v, is_millisecond) == IF ~Truthy(v) THEN None ELSE Dt(v.v)

\* the store as one record
Store ==
    [workflows |-> workflows, runs |-> runs, jobs |-> jobs,
     artifacts |-> artifacts, vcs_systems |-> vcs_systems]

EmptyStore(n) ==
    [workflows |-> <<>>, runs |-> <<>>, jobs |-> <<>>, artifacts |-> <<>>,
     vcs_systems |-> n]

\* the ObjectId the driver gives the next record saved
NextOid(st) ==
    [t |-> "oid",
     v |-> Len(st.workflows) + Len(st.runs) + Len(st.jobs) + Len(st.artifacts) + 1]

\* Collection.objects.get(field=v): the one matching record, else
\* DoesNotExist or MultipleObjectsReturned
Matches(coll, field, v) == {i \in DOMAIN coll : coll[i][field] = v}
GetOk(coll, field, v) == Cardinality(Matches(coll, field, v)) = 1
GetOne(coll, field, v) == coll[CHOOSE i \in Matches(coll, field, v) : TRUE]

\* a faulty __workflow_object_id: the first Workflow of the collection
workflow_object_id_first(st, v) == st.workflows[1].id

\* __workflow_object_id(v)
workflow_object_id_ok(st, v) == GetOk(st.workflows, "workflow_id", v)
workflow_object_id(st, v) == GetOne(st.workflows, "workflow_id", v).id

\* __run_object_id(v)
run_object_id_ok(st, v) == GetOk(st.runs, "run_id", v)
run_object_id(st, v) == GetOne(st.runs, "run_id", v).id

\* __repo_object_id(v): VCSSystem.objects.get(url=v).project_id
repo_object_id_ok(st) == st.vcs_systems = 1
repo_object_id(st) == [t |-> "oid", v |-> 0]

\* "if not obj": the object is empty
IsEmpty(obj) ==
    \A f \in DOMAIN obj : obj[f] = IF f = "steps" THEN <<>> ELSE Absent

\* __create_workflow(obj)
create_workflow(st, obj) ==
    IF IsEmpty(obj) THEN Return(None)
    ELSE IF ~IntOk(Get(obj.id)) THEN Raise
    ELSE IF ~parse_date_ok(Get(obj.created_at), TRUE) THEN Raise
    ELSE IF ~parse_date_ok(Get(obj.updated_at), TRUE) THEN Raise
    ELSE IF ~repo_object_id_ok(st) THEN Raise
    ELSE Return([workflow_id |-> Get(obj.id),
                 name |-> Get(obj.name),
                 path |-> Get(obj.path),
                 state |-> Get(obj.state),
                 created_at |-> parse_date(Get(obj.created_at), TRUE),
                 updated_at |-> parse_date(Get(obj.updated_at), TRUE),
                 repo_id |-> repo_object_id(st)])

\* __create_run(obj)
create_run(st, obj) ==
    IF IsEmpty(obj) THEN Return(None)
    ELSE IF ~IntOk(Get(obj.id)) THEN Raise
    ELSE IF ~IntOk(Get(obj.run_number)) THEN Raise
    ELSE IF ~IntOk(Get(obj.workflow_id)) THEN Raise
    ELSE IF ~workflow_object_id_ok(st, Get(obj.workflow_id)) THEN Raise
    ELSE IF ~parse_date_ok(Get(obj.created_at), FALSE) THEN Raise
    ELSE IF ~IntOk(Get(obj.run_attempt)) THEN Raise
    ELSE Return([run_id |-> Get(obj.id),
                 run_number |-> Get(obj.run_number),
                 event |-> Get(obj.event),
                 workflow_id |-> workflow_object_id(st, Get(obj.workflow_id)),
                 workflow_id_int |-> Get(obj.workflow_id),
                 created_at |-> parse_date(Get(obj.created_at), FALSE),
                 run_attempt |-> Get(obj.run_attempt)])

\* __create_job_step(obj)
create_job_step_ok(obj) ==
    /\ (~Truthy(Get(obj.number)) => IntOk(Get(obj.number)))
    /\ parse_date_ok(Get(obj.started_at), TRUE)
create_job_step(obj) ==
    [number |-> IF ~Truthy(Get(obj.number)) THEN Get(obj.number) ELSE None,
     started_at |-> parse_date(Get(obj.started_at), TRUE)]

\* __create_embedded_docs("job_step", sub_documents)
create_embedded_docs_ok(sub_documents) ==
    \A k \in DOMAIN sub_documents : create_job_step_ok(sub_documents[k])
create_embedded_docs(sub_documents) ==
    [k \in DOMAIN sub_documents |-> create_job_step(sub_documents[k])]

\* __create_job(obj)
create_job(st, obj) ==
    IF IsEmpty(obj) THEN Return(None)
    ELSE IF ~IntOk(Get(obj.id)) THEN Raise
    ELSE IF ~IntOk(Get(obj.run_id)) THEN Raise
    ELSE IF ~run_object_id_ok(st, Get(obj.run_id)) THEN Raise
    ELSE IF ~IntOk(Get(obj.run_attempt)) THEN Raise
    ELSE IF ~parse_date_ok(Get(obj.started_at), FALSE) THEN Raise
    ELSE IF ~create_embedded_docs_ok(obj.steps) THEN Raise
    ELSE IF Truthy(Get(obj.runner_id)) /\ ~IntOk(Get(obj.runner_id)) THEN Raise
    ELSE IF Truthy(Get(obj.runner_group_id)) /\ ~IntOk(Get(obj.runner_group_id))
         THEN Raise
    ELSE Return([job_id |-> Get(obj.id),
                 run_id |-> run_object_id(st, Get(obj.run_id)),
                 run_attempt |-> Get(obj.run_attempt),
                 started_at |-> parse_date(Get(obj.started_at), FALSE),
                 steps |-> create_embedded_docs(obj.steps),
                 runner_id |-> IF Truthy(Get(obj.runner_id))
                               THEN Get(obj.runner_id) ELSE None,
                 runner_group_id |-> IF Truthy(Get(obj.runner_group_id))
                                     THEN Get(obj.runner_group_id) ELSE None])

\* __create_artifact(obj)
create_artifact(st, obj) ==
    IF IsEmpty(obj) THEN Return(None)
    ELSE IF ~IntOk(Get(obj.id)) THEN Raise
    ELSE IF ~IntOk(Get(obj.size_in_bytes)) THEN Raise
    ELSE IF ~parse_date_ok(Get(obj.created_at), FALSE) THEN Raise
    ELSE Return([artifact_id |-> Get(obj.id),
                 size_in_bytes |-> Get(obj.size_in_bytes),
                 created_at |-> parse_date(Get(obj.created_at), FALSE)])

\* self.__operations
operations == {"workflow", "run", "job", "artifact"}

\* func = self.__operations[action]; func(document)
func(action, st, document) ==
    CASE action = "workflow" -> create_workflow(st, document)
      [] action = "run" -> create_run(st, document)
      [] action = "job" -> create_job(st, document)
      [] action = "artifact" -> create_artifact(st, document)

\* Document.save(): validation (Run.event is required), then the insert
save_ok(action, doc) ==
    /\ doc # None
    /\ (action = "run" => doc.event # None)

\* a faulty save: the record takes the place of the collection's last one
save_replaces(st, action, doc) ==
    LET rec == [id |-> NextOid(st)] @@ doc
        put(coll) == IF coll = <<>> THEN <<rec>>
                     ELSE [coll EXCEPT ![Len(coll)] = rec]
    IN  CASE action = "workflow" -> [st EXCEPT !.workflows = put(@)]
          [] action = "run" -> [st EXCEPT !.runs = put(@)]
          [] action = "job" -> [st EXCEPT !.jobs = put(@)]
          [] action = "artifact" -> [st EXCEPT !.artifacts = put(@)]

save(st, action, doc) ==
    LET rec == [id |-> NextOid(st)] @@ doc
    IN  CASE action = "workflow" -> [st EXCEPT !.workflows = Append(@, rec)]
          [] action = "run" -> [st EXCEPT !.runs = Append(@, rec)]
          [] action = "job" -> [st EXCEPT !.jobs = Append(@, rec)]
          [] action = "artifact" -> [st EXCEPT !.artifacts = Append(@, rec)]

\* the item converts and saves
Succeeds(action, st, document) ==
    /\ func(action, st, document).ok
    /\ save_ok(action, func(action, st, document).doc)

\* the except branch: the log line reads document["id"]
except_ok(document) == HasKey(document.id)

\* for document in documents: try ... except ... continue, from item i on
RECURSIVE save_loop(_, _, _, _, _)
save_loop(st, action, documents, i, results) ==
    IF i > Len(documents)
    THEN [store |-> st, raised |-> FALSE, results |-> results]
    ELSE IF Succeeds(action, st, documents[i])
    THEN save_loop(save(st, action, func(action, st, documents[i]).doc),
                   action, documents, i + 1, Append(results, "saved"))
    ELSE IF ~except_ok(documents[i])
    THEN [store |-> st, raised |-> TRUE, results |-> Append(results, "raised")]
    ELSE save_loop(st, action, documents, i + 1, Append(results, "dropped"))

\* a faulty save_documents: the check of the action against the operations
\* is missing, and self.__operations[action] raises KeyError
save_documents_nocheck(st, documents, action) ==
    IF documents = <<>> \/ action = ""
    THEN [store |-> st, raised |-> FALSE, results |-> <<>>]
    ELSE IF action \notin operations
    THEN [store |-> st, raised |-> TRUE, results |-> <<>>]
    ELSE save_loop(st, action, documents, 1, <<>>)

\* save_documents(documents, action)
save_documents(st, documents, action) ==
    IF documents = <<>> \/ action = ""
    THEN [store |-> st, raised |-> FALSE, results |-> <<>>]
    ELSE IF action \notin operations
    THEN [store |-> st, raised |-> FALSE, results |-> <<>>]
    ELSE save_loop(st, action, documents, 1, <<>>)

(***************************************************************************)
(* Inputs of the store: raw items as the platform sends them, and items    *)
(* with a key missing or a value of the wrong kind.                        *)
(***************************************************************************)
WorkflowItem(id) ==
    [id |-> id, name |-> S(1), path |-> S(2), state |-> S(3),
     created_at |-> Ts("ms", 1), updated_at |-> Ts("ms", 2)]

RunItem(id, workflow_id) ==
    [id |-> id, run_number |-> I(1), event |-> S(4),
     workflow_id |-> workflow_id, created_at |-> Ts("sec", 1),
     run_attempt |-> I(1)]

JobItem(id, run_id) ==
    [id |-> id, run_id |-> run_id, run_attempt |-> I(1),
     started_at |-> Ts("sec", 1),
     steps |-> <<[number |-> I(1), started_at |-> Ts("ms", 1)]>>,
     runner_id |-> I(3), runner_group_id |-> I(4)]

ArtifactItem(id) ==
    [id |-> id, size_in_bytes |-> I(10), created_at |-> Ts("sec", 1)]

WorkflowItems ==
    {WorkflowItem(I(55)), WorkflowItem(I(56)), WorkflowItem(Absent),
     [WorkflowItem(I(55)) EXCEPT !.created_at = Ts("sec", 1)]}

RunItems ==
    {RunItem(I(7), I(55)), RunItem(I(8), I(56)), RunItem(Absent, I(55)),
     [RunItem(I(7), I(55)) EXCEPT !.event = Absent]}

\* the last two: a job without runner_id and with runner_group_id 0 (a job
\* no runner has picked up), and a job whose step has no number
JobItems ==
    {JobItem(I(1), I(7)), JobItem(I(2), I(8)), JobItem(I(3), I(9)),
     JobItem(Absent, I(9)),
     [JobItem(I(4), I(7)) EXCEPT !.runner_id = Absent,
                                 !.runner_group_id = I(0)],
     [JobItem(I(5), I(7)) EXCEPT
         !.steps = <<[number |-> Absent, started_at |-> Ts("ms", 1)]>>]}

ArtifactItems ==
    {ArtifactItem(I(1)), ArtifactItem(Absent),
     [ArtifactItem(I(2)) EXCEPT !.size_in_bytes = None]}

\* the action names save_documents is called with: its four operations,
\* the plural of variant 2 of the fetcher, and no action
Actions == operations \cup {"workflows", ""}

ItemsOf(action) ==
    CASE action \in {"workflow", "workflows", ""} -> WorkflowItems
      [] action = "run" -> RunItems
      [] action = "job" -> JobItems
      [] action = "artifact" -> ArtifactItems

Batches(action) ==
    UNION {[1..n -> ItemsOf(action)] : n \in 0..MaxBatch}

\* VCSSystem records with url = repo_url that vcsSHARK left in the database
VcsCounts == {0, 1}

\* what earlier executions left in the database, each the outcome of the
\* calls of save_documents that made it: nothing; a workflow; a workflow and
\* a run of it; the same workflow saved twice; the same run saved twice; two
\* workflows with a run each
InitialStores(n) ==
    LET s0 == EmptyStore(n)
        s1 == save_documents(s0, <<WorkflowItem(I(55))>>, "workflow").store
        s2 == save_documents(s1, <<RunItem(I(7), I(55))>>, "run").store
        s3 == save_documents(s1, <<WorkflowItem(I(55))>>, "workflow").store
        s4 == save_documents(s2, <<RunItem(I(7), I(55))>>, "run").store
        s5 == save_documents(
                  save_documents(s1, <<WorkflowItem(I(56))>>, "workflow").store,
                  <<RunItem(I(7), I(55)), RunItem(I(8), I(56))>>, "run").store
    IN  {s0, s1, s2, s3, s4, s5}

\* the fetcher while only the store is looked at
FetcherIdle ==
    /\ variant = 0 /\ token = ""
    /\ runs_object = [passed |-> FALSE, objects |-> <<>>]
    /\ pc = "init" /\ stage = "none" /\ idx = 0
    /\ current_action = "None" /\ page = 0
    /\ github_url = <<>> /\ request = <<>>
    /\ total_requests = 0 /\ limit_handler_counter = 0 /\ sleep_time = 0
    /\ sink = <<>> /\ gets = 0 /\ fetches = 0 /\ prechecks = 0
    /\ last_status = 0 /\ auth_status = 0 /\ last_count = 0

InitStore ==
    /\ FetcherIdle
    /\ vcs_systems \in VcsCounts
    /\ \E st \in InitialStores(vcs_systems) :
          /\ workflows = st.workflows /\ runs = st.runs
          /\ jobs = st.jobs /\ artifacts = st.artifacts
    /\ call = NoCall /\ ncalls = 0
    /\ server = NoServer /\ executions = 0
    /\ HeadersIdle

\* a call of save_documents; the model follows one call from each of the
\* initial stores
SaveDocuments ==
    /\ ncalls = 0
    /\ \E action \in Actions :
         \E documents \in Batches(action) :
            LET r == save_documents(Store, documents, action)
            IN  /\ workflows' = r.store.workflows
                /\ runs' = r.store.runs
                /\ jobs' = r.store.jobs
                /\ artifacts' = r.store.artifacts
                /\ call' = [action |-> action, documents |-> documents,
                            raised |-> r.raised, results |-> r.results]
                /\ ncalls' = ncalls + 1
    /\ UNCHANGED <<vcs_systems, server, executions, fvars, hvars>>

NextStore == SaveDocuments

SpecStore == InitStore /\ [][NextStore]_vars

(***************************************************************************)
(* The fetcher and the store, each on its own: a behaviour is a run of one *)
(* of the fetchers or a call of save_documents.                            *)
(***************************************************************************)
InitAll == Init \/ InitStore

\* save_documents called by a program that runs no fetcher
SaveAlone == variant = 0 /\ SaveDocuments

NextAll == Next \/ SaveAlone

SpecAll == InitAll /\ [][NextAll]_vars

(***************************************************************************)
(* A sequence of calls of save_documents on a database that starts without *)
(* Actions records, each call with one item of some kind.                  *)
(***************************************************************************)
SequenceItems(action) ==
    CASE action = "workflow" -> {WorkflowItem(I(55)), WorkflowItem(I(56))}
      [] action = "run" -> {RunItem(I(7), I(55)), RunItem(I(8), I(56))}
      [] action = "job" -> {JobItem(I(1), I(7)), JobItem(I(3), I(9))}
      [] action = "artifact" -> {ArtifactItem(I(1))}

InitSequence ==
    /\ FetcherIdle
    /\ vcs_systems \in VcsCounts
    /\ workflows = <<>> /\ runs = <<>> /\ jobs = <<>> /\ artifacts = <<>>
    /\ call = NoCall /\ ncalls = 0
    /\ server = NoServer /\ executions = 0
    /\ HeadersIdle

SaveNext ==
    /\ ncalls < MaxCalls
    /\ \E action \in operations :
         \E document \in SequenceItems(action) :
            LET r == save_documents(Store, <<document>>, action)
            IN  /\ workflows' = r.store.workflows
                /\ runs' = r.store.runs
                /\ jobs' = r.store.jobs
                /\ artifacts' = r.store.artifacts
                /\ call' = [action |-> action, documents |-> <<document>>,
                            raised |-> r.raised, results |-> r.results]
                /\ ncalls' = ncalls + 1
    /\ UNCHANGED <<vcs_systems, server, executions, fvars, hvars>>

NextSequence == SaveNext

SpecSequence == InitSequence /\ [][NextSequence]_vars

(***************************************************************************)
(* The program executed again and again: run of variant 1 with             *)
(* save_mongo = Mongo.save_documents and runs_object = Run, no token,      *)
(* against a platform that answers every request with 200 and whose data   *)
(* does not change.  An execution is one action: the store is not read     *)
(* from outside while the program runs.                                    *)
(***************************************************************************)
\* the items of page p of a listing, as the platform pages it
PageOf(items, p) ==
    SubSeq(items, (p - 1) * PerPage + 1,
           IF p * PerPage < Len(items) THEN p * PerPage ELSE Len(items))

\* paginating with the sink attached, from page p on: all responses are
\* 200; an exception of the sink leaves paginating and run.  (A value that
\* is used more than once is bound as the element of a one-element set.)
RECURSIVE fetch1(_, _, _, _)
fetch1(st, items, action, p) ==
    LET response_JSON == PageOf(items, p)
    IN  IF response_JSON = <<>> THEN [store |-> st, raised |-> FALSE]
        ELSE CHOOSE out \in
               {IF r.raised THEN [store |-> r.store, raised |-> TRUE]
                ELSE IF Len(response_JSON) < PerPage
                THEN [store |-> r.store, raised |-> FALSE]
                ELSE fetch1(r.store, items, action, p + 1)
                  : r \in {save_documents(st, response_JSON, action)}} : TRUE

\* for run in run_ids: self.get_jobs(run), from the i-th element on
RECURSIVE jobs_loop1(_, _, _, _)
jobs_loop1(st, srv, run_ids, i) ==
    IF i > Len(run_ids) THEN [store |-> st, raised |-> FALSE]
    ELSE CHOOSE out \in
           {IF r.raised THEN r ELSE jobs_loop1(r.store, srv, run_ids, i + 1)
              : r \in {fetch1(st, srv.jobs[run_ids[i].v], "job", 1)}} : TRUE

\* run(runs_object=Run), from the return of get_runs on: the run ids are
\* read from the Run collection, then the jobs are fetched
run1_after_runs(r, srv) ==
    IF r.raised THEN r
    ELSE jobs_loop1(r.store, srv,
                    [i \in DOMAIN r.store.runs |-> r.store.runs[i].run_id], 1)

\* run(runs_object=Run), from the return of get_artifacts on
run1_after_artifacts(a, srv) ==
    IF a.raised THEN a
    ELSE CHOOSE out \in
           {run1_after_runs(r, srv)
              : r \in {fetch1(a.store, srv.runs, "run", 1)}} : TRUE

\* run(runs_object=Run), from the return of get_workflows on
run1_after_workflows(w, srv) ==
    IF w.raised THEN w
    ELSE CHOOSE out \in
           {run1_after_artifacts(a, srv)
              : a \in {fetch1(w.store, srv.artifacts, "artifact", 1)}} : TRUE

\* run(runs_object=Run)
execute1(st, srv) ==
    CHOOSE out \in
      {run1_after_workflows(w, srv)
         : w \in {fetch1(st, srv.workflows, "workflow", 1)}} : TRUE

\* what the platform holds for the repository
Servers ==
    [workflows : {<<>>, <<WorkflowItem(I(55))>>,
                  <<WorkflowItem(I(55)), WorkflowItem(I(56))>>,
                  <<WorkflowItem(I(55)), WorkflowItem(I(56)),
                    WorkflowItem(I(57))>>},
     artifacts : {<<>>, <<ArtifactItem(I(1))>>},
     runs : {<<>>, <<RunItem(I(7), I(55))>>,
             <<RunItem(I(7), I(55)), RunItem(I(8), I(56))>>},
     jobs : {[id \in RunIdValues |->
                 IF id = 7 THEN j7 ELSE j8] :
               j7 \in {<<>>, <<JobItem(I(1), I(7))>>,
                       <<JobItem(I(1), I(7)), JobItem(I(4), I(7))>>},
               j8 \in {<<>>, <<JobItem(I(2), I(8))>>}}]

InitRerun ==
    /\ FetcherIdle
    /\ vcs_systems \in VcsCounts
    /\ workflows = <<>> /\ runs = <<>> /\ jobs = <<>> /\ artifacts = <<>>
    /\ call = NoCall /\ ncalls = 0
    /\ server \in Servers /\ executions = 0
    /\ HeadersIdle

Execute1 ==
    /\ executions < MaxExecutions
    /\ \E r \in {execute1(Store, server)} :
          /\ workflows' = r.store.workflows
          /\ runs' = r.store.runs
          /\ jobs' = r.store.jobs
          /\ artifacts' = r.store.artifacts
    /\ executions' = executions + 1
    /\ UNCHANGED <<vcs_systems, call, ncalls, server, fvars, hvars>>

NextRerun == Execute1

SpecRerun == InitRerun /\ [][NextRerun]_vars

(***************************************************************************)
(* Several fetchers of variant 1 in one process.  __headers is an          *)
(* attribute of the class GitHub: __init__ and the requests reach it       *)
(* through self, and __init__ stores into the dict, it does not rebind it. *)
(***************************************************************************)
InstanceTokens == Tokens \cup {"t2"}

\* a process that has constructed no fetcher yet and uses no store
InitHeaders ==
    /\ FetcherIdle
    /\ workflows = <<>> /\ runs = <<>> /\ jobs = <<>> /\ artifacts = <<>>
    /\ vcs_systems = 1 /\ call = NoCall /\ ncalls = 0
    /\ server = NoServer /\ executions = 0
    /\ headers = ClassHeaders /\ instances = <<>> /\ sent = <<>>

\* GitHub(owner, repo, token=tok, save_mongo=...)
Construct ==
    /\ Len(instances) < MaxInstances
    /\ \E tok \in InstanceTokens :
          /\ instances' = Append(instances, tok)
          /\ headers' = IF tok # ""
                        THEN [headers EXCEPT !.Authorization = <<"token ", tok>>]
                        ELSE headers
    /\ UNCHANGED <<sent, fvars, mvars>>

\* authenticate_user of instance i, which run calls when the instance has a
\* token: requests.get(self.api_url + "user", headers=self.__headers)
PrecheckRequest ==
    /\ Len(sent) < MaxSent
    /\ \E i \in DOMAIN instances :
          /\ instances[i] # ""
          /\ sent' = Append(sent, [instance |-> i, url |-> "user",
                                   headers |-> headers])
    /\ UNCHANGED <<headers, instances, fvars, mvars>>

\* paginating of instance i: requests.get(github_url, headers=self.__headers)
PageRequest ==
    /\ Len(sent) < MaxSent
    /\ \E i \in DOMAIN instances :
          sent' = Append(sent, [instance |-> i, url |-> "page",
                               headers |-> headers])
    /\ UNCHANGED <<headers, instances, fvars, mvars>>

NextHeaders == Construct \/ PrecheckRequest \/ PageRequest

SpecHeaders == InitHeaders /\ [][NextHeaders]_vars

(***************************************************************************)
(* Variant 1 against a platform with finitely many items that answers 403  *)
(* finitely often: a page request is answered with the page of the listing *)
(* it asks for, with a 403 (at most MaxLimits times) or with a fatal       *)
(* status.  The sink records the pages.                                    *)
(***************************************************************************)
FetchServers ==
    [workflows : {<<>>, <<WorkflowItem(I(55))>>,
                  <<WorkflowItem(I(55)), WorkflowItem(I(56)),
                    WorkflowItem(I(57))>>},
     artifacts : {<<>>, <<ArtifactItem(I(1))>>},
     runs : {<<RunItem(I(7), I(55))>>,
             <<RunItem(I(7), I(55)), RunItem(I(8), I(56))>>},
     jobs : {[id \in RunIdValues |->
                 IF id = 7 THEN <<JobItem(I(1), I(7)), JobItem(I(4), I(7))>>
                 ELSE <<JobItem(I(2), I(8))>>]}]

\* the run-id sources of these executions
FetchRunsObjects ==
    {ro \in RunsObjects :
        \/ ~ro.passed
        \/ ro.objects = <<[id |-> Oid(1), run_id |-> 7]>>
        \/ ro.objects = <<[id |-> Oid(1), run_id |-> 7],
                          [id |-> Oid(2), run_id |-> 8]>>}

\* the listing the fetch in progress pages through
Listing ==
    CASE stage = "workflows" -> server.workflows
      [] stage = "artifacts" -> server.artifacts
      [] stage = "runs" -> server.runs
      [] stage = "jobs" -> server.jobs[run_ids1[idx]]
      [] OTHER -> <<>>

InitFetch ==
    /\ variant = 1 /\ token = ""
    /\ runs_object \in FetchRunsObjects
    /\ pc = "init" /\ stage = "none" /\ idx = 0
    /\ current_action = "None" /\ page = 0
    /\ github_url = <<>> /\ request = <<>>
    /\ total_requests = 0 /\ limit_handler_counter = 0 /\ sleep_time = 0
    /\ sink = <<>> /\ gets = 0 /\ fetches = 0 /\ prechecks = 0
    /\ last_status = 0 /\ auth_status = 0 /\ last_count = 0
    /\ workflows = <<>> /\ runs = <<>> /\ jobs = <<>> /\ artifacts = <<>>
    /\ vcs_systems = 1 /\ call = NoCall /\ ncalls = 0
    /\ server \in FetchServers /\ executions = 0
    /\ HeadersIdle

StartFetch ==
    /\ pc = "init"
    /\ Set(run1(Cur))

Serve200 ==
    /\ pc = "wait"
    /\ Set(paginating1_200(Cur, Len(PageOf(Listing, page))))

Serve403 ==
    /\ pc = "wait"
    /\ limit_handler_counter < MaxLimits
    /\ \E reset_time \in Times, current_time \in Times :
          Set(paginating1_403(Cur, reset_time, current_time))

ServeOther ==
    /\ pc = "wait"
    /\ \E status \in OtherStatus : Set(paginating1_other(Cur, status))

WakeFetch ==
    /\ pc = "sleep"
    /\ Set(paginating1_wake(Cur))

NextFetch == StartFetch \/ Serve200 \/ Serve403 \/ ServeOther \/ WakeFetch

\* the platform answers every request and every sleep returns
SpecFetch == InitFetch /\ [][NextFetch]_vars /\ WF_vars(NextFetch)

(***************************************************************************)
(* Properties of the store.                                                *)
(***************************************************************************)
\* save_documents has been called and has ended
Called == ncalls = 1

\* the job item names a run no stored Run has
Unresolved(document) ==
    /\ IntOk(Get(document.run_id))
    /\ Matches(runs, "run_id", Get(document.run_id)) = {}

\* C9: for every batch of a known resource kind, save_documents does not
\* raise: every item of the batch is processed, and is either persisted or
\* (its conversion or its save having failed) logged and dropped.
C9_ItemFailuresContained ==
    (Called /\ call.action \in operations) =>
        /\ ~call.raised
        /\ Len(call.results) = Len(call.documents)
        /\ \A i \in DOMAIN call.results : call.results[i] \in {"saved", "dropped"}

\* C10: a job batch with an item whose run_id matches no stored Run does not
\* raise; no Job is persisted for that item, and every later item of the
\* batch that converts (its run_id resolves) is persisted.
C10_UnresolvedRunSkipped ==
    (Called /\ call.action = "job") =>
        \A i \in DOMAIN call.documents :
            Unresolved(call.documents[i]) =>
                /\ ~call.raised
                /\ i \in DOMAIN call.results
                /\ call.results[i] = "dropped"
                /\ \A j \in DOMAIN call.documents :
                      (j > i /\ Succeeds("job", Store, call.documents[j])) =>
                          (j \in DOMAIN call.results /\ call.results[j] = "saved")

\* a is a prefix of b
Prefix(a, b) == Len(a) <= Len(b) /\ SubSeq(b, 1, Len(a)) = a

\* the collection save_documents(.., action) writes to, in store st
CollectionOf(st, action) ==
    CASE action = "workflow" -> st.workflows
      [] action = "run" -> st.runs
      [] action = "job" -> st.jobs
      [] action = "artifact" -> st.artifacts
      [] OTHER -> <<>>

\* the store after the step
StoreAfter ==
    [workflows |-> workflows', runs |-> runs', jobs |-> jobs',
     artifacts |-> artifacts', vcs_systems |-> vcs_systems']

\* records in all the collections of st
Records(st) ==
    Len(st.workflows) + Len(st.runs) + Len(st.jobs) + Len(st.artifacts)

\* the items of call c the loop reached that convert and save in store st
\* (a batch has one kind, and no converter reads the collection of its own
\* kind, so st answers for every item of the batch)
Good(c, st) ==
    IF c.action \in operations
    THEN {i \in DOMAIN c.results : Succeeds(c.action, st, c.documents[i])}
    ELSE {}

\* C13: save_documents is append-only: a call leaves every record
\* persisted before it in place and unchanged, and adds one new record,
\* the converted item under a fresh id, for each item that converts and
\* saves, in the order of the batch, and no other record.
C13_AppendOnly ==
    [][ncalls' = ncalls + 1 =>
        LET c == call'
            good == Good(c, Store)
            old == CollectionOf(Store, c.action)
            new == CollectionOf(StoreAfter, c.action)
        IN  /\ Prefix(workflows, workflows') /\ Prefix(runs, runs')
            /\ Prefix(jobs, jobs') /\ Prefix(artifacts, artifacts')
            /\ Records(StoreAfter) = Records(Store) + Cardinality(good)
            /\ Len(new) = Len(old) + Cardinality(good)
            /\ \A i \in good :
                  LET k == Cardinality({j \in good : j <= i})
                      rec == new[Len(old) + k]
                  IN  /\ [f \in DOMAIN rec \ {"id"} |-> rec[f]]
                            = func(c.action, Store, c.documents[i]).doc
                      /\ \A a \in operations :
                            \A n \in DOMAIN CollectionOf(Store, a) :
                               CollectionOf(Store, a)[n].id # rec.id]_vars

\* a batch of three runs, the second of which does not convert, was saved
\* into a store that held a run already
C13_Witness ==
    /\ Called /\ call.action = "run" /\ ~call.raised
    /\ call.results = <<"saved", "dropped", "saved">>
    /\ Len(runs) = 3 /\ Len(workflows) = 1

\* C17: save_documents called with a resource kind that has no converter
\* persists nothing, leaves the store as it was and does not raise.
C17_UnknownKindSkipped ==
    [][(ncalls' = ncalls + 1 /\ call'.action \notin operations) =>
          /\ ~call'.raised
          /\ call'.results = <<>>
          /\ UNCHANGED <<workflows, runs, jobs, artifacts, vcs_systems>>]_vars

\* a batch of two items under the kind "workflows" met a store with records
C17_Witness ==
    /\ Called /\ call.action = "workflows" /\ Len(call.documents) = 2
    /\ Len(workflows) = 1 /\ Len(runs) = 1 /\ ~call.raised

\* the record save_documents wrote for item i of its last call (a saved one)
RecordOf(i) ==
    LET saved == {j \in DOMAIN call.results : call.results[j] = "saved"}
        coll == CollectionOf(Store, call.action)
    IN  coll[Len(coll) - Cardinality(saved)
                + Cardinality({j \in saved : j <= i})]

\* what the specification stores for an optional numeric field
Optional(v) == IF Truthy(v) THEN v ELSE None

\* the job item converts as far as its other fields go, and each of its
\* optional numeric fields is a number or is missing
OptionalOnly(document) ==
    /\ Succeeds("job", Store,
                [document EXCEPT !.runner_id = Absent,
                                 !.runner_group_id = Absent, !.steps = <<>>])
    /\ Get(document.runner_id).t \in {"int", "None"}
    /\ Get(document.runner_group_id).t \in {"int", "None"}
    /\ \A k \in DOMAIN document.steps :
          /\ Get(document.steps[k].number).t \in {"int", "None"}
          /\ parse_date_ok(Get(document.steps[k].started_at), TRUE)

\* C19: for Job.runner_id, Job.runner_group_id and JobStep.number the job
\* converters store the integer of the source field when it is present and
\* truthy, and store None, without raising, when it is missing or falsy.
C19_OptionalNumbers ==
    (Called /\ call.action = "job") =>
        \A i \in DOMAIN call.results :
            LET document == call.documents[i]
            IN  OptionalOnly(document) =>
                  /\ call.results[i] = "saved"
                  /\ RecordOf(i).runner_id = Optional(Get(document.runner_id))
                  /\ RecordOf(i).runner_group_id
                        = Optional(Get(document.runner_group_id))
                  /\ \A k \in DOMAIN document.steps :
                        RecordOf(i).steps[k].number
                            = Optional(Get(document.steps[k].number))

\* the raw workflow item carries id, name, path, state and both timestamps
\* in the sub-second format
FullWorkflow(document) ==
    /\ document.id.t = "int"
    /\ document.name.t = "str" /\ document.path.t = "str"
    /\ document.state.t = "str"
    /\ document.created_at.t = "ms" /\ document.updated_at.t = "ms"

\* C20: every raw workflow item that carries id, name, path, state and both
\* timestamps in the sub-second format is persisted as one Workflow record
\* with the item's integer id, name, path and state, whatever else the
\* store contains.
C20_WorkflowConverted ==
    (Called /\ call.action = "workflow") =>
        \A i \in DOMAIN call.results :
            LET document == call.documents[i]
            IN  FullWorkflow(document) =>
                  /\ call.results[i] = "saved"
                  /\ RecordOf(i).workflow_id = document.id
                  /\ RecordOf(i).name = document.name
                  /\ RecordOf(i).path = document.path
                  /\ RecordOf(i).state = document.state
                  /\ RecordOf(i).created_at = Dt(document.created_at.v)
                  /\ RecordOf(i).updated_at = Dt(document.updated_at.v)

\* C11: after any sequence of calls of save_documents, every persisted
\* Run's workflow reference is the id of a persisted Workflow whose
\* workflow_id is the Run's workflow_id_int, and every persisted Job's run
\* reference is the id of a persisted Run; when a call has persisted a job
\* item, that Run's run_id is the item's run_id.
C11_ReferencesResolve ==
    /\ \A r \in DOMAIN runs :
          \E w \in DOMAIN workflows :
             /\ workflows[w].id = runs[r].workflow_id
             /\ workflows[w].workflow_id = runs[r].workflow_id_int
    /\ \A j \in DOMAIN jobs :
          \E r \in DOMAIN runs : runs[r].id = jobs[j].run_id
    /\ call.action = "job" =>
          \A i \in DOMAIN call.results :
             call.results[i] = "saved" =>
                \E r \in DOMAIN runs :
                   /\ runs[r].id = RecordOf(i).run_id
                   /\ runs[r].run_id = Get(call.documents[i].run_id)

\* two workflows, a run of the second and a job of that run are persisted
C11_Witness ==
    /\ Len(workflows) = 2 /\ Len(runs) = 1 /\ Len(jobs) = 1
    /\ runs[1].workflow_id = workflows[2].id
    /\ jobs[1].run_id = runs[1].id

\* C16: with save_mongo = Mongo.save_documents, the resource kind variant 2
\* hands to the sink with every page is a kind the Store has a converter
\* for (a key of Mongo.__operations), so no page is dropped as unknown.
C16_KindsKnownToStore ==
    variant = 2 =>
        \A i \in DOMAIN sink : sink[i].action \in operations

\* C18: given an empty item list, save_documents leaves the store as it
\* was and does not raise, for every resource kind; and paginating of
\* variant 1, on a 200 response whose item list is empty, does not call
\* the sink, leaves the page counter as it was and returns into run, which
\* goes on with its next step.
C18_EmptyListIsNoOp ==
    [][/\ (ncalls' = ncalls + 1 /\ call'.documents = <<>>) =>
            /\ ~call'.raised
            /\ UNCHANGED <<workflows, runs, jobs, artifacts, vcs_systems>>
       /\ (variant = 1 /\ Got200(0)) =>
            /\ sink' = sink
            /\ paginating1_200_end(Cur, 0).sink = sink
            /\ paginating1_200_end(Cur, 0).page = page
            /\ pc' # "raised"
            /\ \/ fetches' = fetches + 1 /\ pc' = "wait" /\ page' = 1
               \/ pc' = "done" /\ page' = page
               \/ pc' = "exit" /\ page' = page /\ stage = "runs"
                    /\ ~runs_object.passed]_vars

\* an empty second page of the artifact fetch of variant 1
C18_Witness ==
    /\ variant = 1 /\ last_status = 200 /\ last_count = 0
    /\ stage = "runs" /\ pc = "wait" /\ page = 1 /\ Len(sink) = 2
    /\ sink[2] = [documents |-> PerPage, action |-> "artifact", page |-> 1]

\* save_documents was called with an empty list on a store with records
C18_WitnessStore ==
    /\ Called /\ call.documents = <<>> /\ call.action = "run"
    /\ Len(runs) = 2

\* the numeric ids of the records of a collection, in insertion order
Keys(coll, field) == [i \in DOMAIN coll |-> coll[i][field]]

\* C12: when the program is executed a second time against unchanged
\* server data and the store the first execution left, the second
\* execution adds one further record for every workflow, run, job and
\* artifact record the first execution persisted.
C12_RerunDuplicates ==
    [][(executions = 1 /\ executions' = 2) =>
          /\ Keys(workflows', "workflow_id")
                = Keys(workflows, "workflow_id") \o Keys(workflows, "workflow_id")
          /\ Keys(runs', "run_id") = Keys(runs, "run_id") \o Keys(runs, "run_id")
          /\ Keys(jobs', "job_id") = Keys(jobs, "job_id") \o Keys(jobs, "job_id")
          /\ Keys(artifacts', "artifact_id")
                = Keys(artifacts, "artifact_id") \o Keys(artifacts, "artifact_id")]_vars

(***************************************************************************)
(* Properties of the fetcher: run ids, sleep durations, counters.          *)
(***************************************************************************)
\* the path of the job listing of the run with the numeric id run_id
JobPath(run_id) ==
    api_url \o <<"repos/", Owner, "/", Repo, "/actions/runs/">>
            \o Str(run_id) \o <<"/jobs">>

\* C21: in both variants, the run identifier in the path of every job
\* request of run is the numeric run id (run_id) of the Run record of the
\* run-id source the loop is at.
C21_JobPathHasRunId ==
    stage = "jobs" =>
        /\ idx \in DOMAIN runs_object.objects
        /\ Prefix(JobPath(runs_object.objects[idx].run_id), request)

\* C23: in variant 1, for every reset time and current time, the duration
\* passed to sleep on a 403 is reset_time - current_time in seconds, and
\* is zero when the reset time is not later than the current time.
C23_SleepIsDifference ==
    (variant = 1 /\ pc = "wait") =>
        \A reset_time \in Times, current_time \in Times :
            paginating1_403(Cur, reset_time, current_time).sleep_time
                = IF reset_time > current_time
                  THEN reset_time - current_time ELSE 0

\* C24: in both variants the duration passed to sleep on a 403 is never
\* negative: it is the difference of the two times (reset - now in
\* variant 1, now - reset in variant 2) reduced modulo 86400, in 0..86399.
C24_SleepNeverNegative ==
    /\ sleep_time \in 0..(SecondsPerDay - 1)
    /\ pc = "wait" =>
          \A reset_time \in Times, current_time \in Times :
             LET d == IF variant = 1 THEN reset_time - current_time
                      ELSE current_time - reset_time
                 t == IF variant = 1
                      THEN paginating1_403(Cur, reset_time, current_time).sleep_time
                      ELSE paginating2_403(Cur, reset_time, current_time).sleep_time
             IN  /\ t \in 0..(SecondsPerDay - 1)
                 /\ \E k \in -2..2 : t = d + k * SecondsPerDay

\* variant 2 sleeps after a 403 whose reset time lies after the Date header
C24_Witness ==
    /\ variant = 2 /\ pc = "sleep" /\ last_status = 403
    /\ sleep_time = SecondsPerDay - 30

\* C28: in variant 1, total_requests counts the GET requests the instance
\* has issued (it grows by one with every response received, to the
\* precheck or to a page request, and not otherwise), and
\* limit_handler_counter counts the 403 responses to page requests.
C28_CountersCountRequests ==
    [][variant = 1 =>
          /\ total_requests' = total_requests
                + (IF pc \in {"wait", "auth"} THEN 1 ELSE 0)
          /\ limit_handler_counter' = limit_handler_counter
                + (IF pc = "wait" /\ last_status' = 403 THEN 1 ELSE 0)]_vars

\* b ends with a
Suffix(a, b) ==
    Len(a) <= Len(b) /\ SubSeq(b, Len(b) - Len(a) + 1, Len(b)) = a

\* C22: in variant 1 every fetch starts at page 1; the pages forwarded to
\* the sink in a fetch are numbered 1, 2, ... in that order, without gap
\* or repeat, whatever 403 responses come in between; and at every request
\* the page counter, which is the page the request asks for, is 1 plus the
\* number of pages forwarded so far in the fetch.
C22_PagesInOrder ==
    /\ [](variant = 1 =>
            /\ (sink # <<>> => sink[1].page = 1)
            /\ \A i \in 2..Len(sink) :
                  sink[i].page = 1 \/ sink[i].page = sink[i - 1].page + 1)
    /\ [][variant = 1 =>
            /\ fetches' = fetches + 1 => page' = 1
            /\ Len(sink') = Len(sink) + 1 =>
                  /\ sink'[Len(sink')].page = page
                  /\ (fetches' = fetches /\ pc' = "wait") => page' = page + 1
            /\ (sink' = sink /\ fetches' = fetches) => page' = page
            /\ (pc' = "wait") => Suffix(PageParam(page'), request')]_vars

\* two pages forwarded in the workflow fetch, with a 403 in between
C22_Witness ==
    /\ variant = 1 /\ stage = "workflows" /\ pc = "wait" /\ page = 3
    /\ Len(sink) = 2 /\ sink[2].page = 2 /\ limit_handler_counter = 1

\* C27: in variant 1 with a run-id source, run performs one job fetch per
\* Run record of the source (a run id stored twice is fetched twice), in
\* the order of the records, and issues no job request before the
\* workflow, the artifact and the run fetch have ended.
C27_OneJobFetchPerRecord ==
    (variant = 1 /\ runs_object.passed) =>
        /\ stage = "jobs" =>
              /\ idx \in DOMAIN runs_object.objects
              /\ fetches = 3 + idx
              /\ Prefix(JobPath(runs_object.objects[idx].run_id), request)
        /\ stage # "jobs" =>
              /\ idx = 0 /\ fetches <= 3
              /\ \A id \in RunIdValues : ~Prefix(JobPath(id), request)
              /\ \A i \in DOMAIN sink : sink[i].action # "job"
        /\ pc = "done" => fetches = 3 + Len(runs_object.objects)

\* run has ended after the job fetches of a run id that is stored twice
C27_Witness ==
    /\ variant = 1 /\ pc = "done" /\ fetches = 5
    /\ Len(runs_object.objects) = 2
    /\ runs_object.objects[1].run_id = runs_object.objects[2].run_id

\* C25: a fetcher constructed without a token sends no Authorization
\* header in any request, also when another fetcher was constructed with a
\* token earlier in the process; a fetcher constructed with token t sends
\* exactly t.
C25_OwnTokenOnly ==
    \A k \in DOMAIN sent :
        sent[k].headers.Authorization
            = IF instances[sent[k].instance] = "" THEN <<>>
              ELSE <<"token ", instances[sent[k].instance]>>

\* the pages of a listing as paginating forwards them under the kind action
RECURSIVE PagesOf(_, _, _)
PagesOf(items, action, p) ==
    IF PageOf(items, p) = <<>> THEN <<>>
    ELSE <<[documents |-> Len(PageOf(items, p)), action |-> action,
            page |-> p]>> \o PagesOf(items, action, p + 1)

\* the pages of the job listings of the first n run ids
RECURSIVE JobPages(_)
JobPages(n) ==
    IF n = 0 THEN <<>>
    ELSE JobPages(n - 1) \o PagesOf(server.jobs[run_ids1[n]], "job", 1)

\* what the sink has been handed under the kind action
Forwarded(action) == SelectSeq(sink, LAMBDA e : e.action = action)

\* the fetches of run that have returned
Returned ==
    CASE pc = "done" -> {"workflows", "artifacts", "runs", "jobs"}
      [] pc # "done" /\ stage = "artifacts" -> {"workflows"}
      [] pc # "done" /\ stage = "runs" /\ (pc # "exit" \/ last_status # 200) ->
           {"workflows", "artifacts"}
      [] pc # "done" /\ stage = "runs" /\ pc = "exit" /\ last_status = 200 ->
           {"workflows", "artifacts", "runs"}
      [] pc # "done" /\ stage = "jobs" -> {"workflows", "artifacts", "runs"}
      [] OTHER -> {}

\* C26: in variant 1, when the platform answers 403 finitely often and the
\* listings are finite, every fetch ends (it returns, or the program aborts
\* on a fatal status): run, which performs the fetches one after the
\* other, reaches its end or the abort.  A fetch that has returned has forwarded every
\* non-empty page of its listing exactly once, in order; a 403 never ends
\* or aborts a fetch, however many came before: it is followed by the
\* sleep and the same fetch goes on.
C26_FetchTerminates ==
    /\ <>(pc \in {"done", "exit"})
    /\ [](/\ "workflows" \in Returned =>
               Forwarded("workflow") = PagesOf(server.workflows, "workflow", 1)
          /\ "artifacts" \in Returned =>
               Forwarded("artifact") = PagesOf(server.artifacts, "artifact", 1)
          /\ "runs" \in Returned =>
               Forwarded("run") = PagesOf(server.runs, "run", 1)
          /\ "jobs" \in Returned => Forwarded("job") = JobPages(Len(run_ids1))
          /\ (stage = "jobs" /\ pc # "done") =>
               Prefix(JobPages(idx - 1), Forwarded("job")))
    /\ [](pc = "wait" =>
            \A reset_time \in Times, current_time \in Times :
               paginating1_403(Cur, reset_time, current_time).pc = "sleep")
    /\ [][pc = "sleep" =>
            (pc' = "wait" /\ fetches' = fetches /\ sink' = sink)]_vars

\* run has returned after MaxLimits 403 responses and two job fetches
C26_Witness ==
    /\ pc = "done" /\ limit_handler_counter = MaxLimits
    /\ Len(runs_object.objects) = 2 /\ Len(Forwarded("job")) = 2
    /\ Len(server.workflows) = 3 /\ Len(Forwarded("workflow")) = 2

=============================================================================
